---- MODULE Spec2Model ----
(***************************************************************************)
(* Parameter Monitoring & Session Engine (VehicleMonitor) of               *)
(* vehicle_monitoring_system.py.                                           *)
(*                                                                         *)
(* Representation of Python values:                                        *)
(*   - an optional number or string (None / '' versus a value) is a        *)
(*     sequence of length 0 or 1: None == <<>>, 6500 is <<6500>>;          *)
(*   - a parameter path 'CATEGORY.PARAM' is the pair <<CATEGORY, PARAM>>,  *)
(*     which is what param_path.split('.') yields;                         *)
(*   - a dict is a function, {} is the function with the empty domain;     *)
(*   - datetime.now() and time.time() read the one clock `now`;            *)
(*   - O2_VOLTAGE is counted in tenths of a volt (max_normal 1.1 is 11);   *)
(*   - the unit of the temperatures is written "C".                        *)
(***************************************************************************)
EXTENDS Integers, Sequences, FiniteSets, TLC

VARIABLES
    now,                \* the clock read by time.time() / datetime.now()
    active_profile,     \* self.active_profile
    monitoring_active,  \* self.monitoring_active
    current_values,     \* self.current_values
    historical_data,    \* self.historical_data
    alerts,             \* self.alerts
    last_poll_time,     \* self.last_poll_time
    monitoring_data,    \* self.monitoring_data (the MonitoringDocument)
    persisted,          \* content of monitoring_data_file
    saveFailures,       \* number of saves that have failed so far
    call,               \* the last call made to the engine and what it returned
    reads,              \* parameter paths requested from the Value Source by the last call, in order
    tickLog,            \* times at which update_parameters ran its loop in the running session
    readLog,            \* <<path, time>> of every Value Source request in the running session
    evaluated,          \* an application of the Status Evaluator: its input and its result
    inflight,           \* the invocations of update_parameters that have not returned yet
    merging             \* an application of merge_dtc_databases: its inputs and its result

vars == <<now, active_profile, monitoring_active, current_values, historical_data,
          alerts, last_poll_time, monitoring_data, persisted, saveFailures,
          call, reads, tickLog, readLog, evaluated, inflight, merging>>

----------------------------------------------------------------------------
(* Bounds of the model *)

Epoch == 100            \* clock value at construction (time.time() is far above every polling_rate)
MaxTime == 1            \* the clock advances at most this far in Spec
FaultTime == 1          \* the clock advances at most this far in SpecFaults
SchedHorizon == 10      \* the clock advances at most this far in SpecSched
SessionTime == 1        \* the clock advances at most this far in SpecSessions
MaxInFlight == 2        \* invocations of update_parameters running at the same time in SpecThreads
MaxSessions == 1        \* sessions started per run
MaxSaveFailures == 1    \* saves that may fail per run
MaxCodes == 2           \* trouble codes in the databases SpecMerge merges
Margin == 2             \* SpecEval tries values this far beyond the outermost bound of a definition

----------------------------------------------------------------------------
(* Python value helpers *)

None == <<>>
EmptyStr == <<>>
EmptyDict == <<>>

Some(v) == <<v>>

\* datetime.isoformat(): the text of a time; never the empty string
isoformat(t) == <<t>>

\* datetime.fromisoformat(): the time of a text
fromisoformat(s) == s[1]

Last(s) == s[Len(s)]

Range(s) == {s[i] : i \in DOMAIN s}

\* d[k] = v on a dict, adding the key if it is absent
DictSet(d, k, v) == [x \in (DOMAIN d) \cup {k} |-> IF x = k THEN v ELSE d[x]]

\* d.get(k, default)
DictGet(d, k, default) == IF k \in DOMAIN d THEN d[k] ELSE default

----------------------------------------------------------------------------
(* Parameter Registry *)

ParamDef(pid, name, unit, mn, mx, w, c, prio, rate, desc) ==
    [pid |-> pid, name |-> name, unit |-> unit, min_normal |-> mn, max_normal |-> mx,
     warning_threshold |-> w, critical_threshold |-> c, priority |-> prio,
     polling_rate |-> rate, description |-> desc]

\* warning_threshold and critical_threshold of FUEL_PRESSURE are exchanged
FUEL_PARAMETERS_Swapped ==
    [FUEL_PRESSURE |-> ParamDef("010A", "Fuel Pressure", "kPa", <<350>>, <<500>>, <<250>>, <<300>>,
        "medium", 5, "Fuel pressure"),
     FUEL_LEVEL |-> ParamDef("012F", "Fuel Level", "%", <<10>>, <<100>>, <<10>>, <<5>>,
        "medium", 30, "Fuel tank level input"),
     FUEL_RATE |-> ParamDef("015E", "Fuel Rate", "L/h", <<0>>, <<30>>, None, None,
        "low", 5, "Engine fuel rate")]

ENGINE_PARAMETERS ==
    [RPM |-> ParamDef("010C", "Engine RPM", "rpm", <<600>>, <<6500>>, <<6000>>, <<6500>>,
        "high", 1, "Engine revolutions per minute"),
     LOAD |-> ParamDef("0104", "Engine Load", "%", <<0>>, <<85>>, <<85>>, <<95>>,
        "medium", 2, "Calculated engine load value"),
     COOLANT_TEMP |-> ParamDef("0105", "Coolant Temperature", "C", <<75>>, <<105>>, <<105>>, <<115>>,
        "high", 5, "Engine coolant temperature"),
     INTAKE_TEMP |-> ParamDef("010F", "Intake Air Temperature", "C", <<-10>>, <<70>>, <<70>>, <<85>>,
        "low", 10, "Intake air temperature"),
     MAF |-> ParamDef("0110", "MAF Air Flow Rate", "g/s", <<0>>, <<250>>, None, None,
        "low", 5, "Mass air flow sensor air flow rate"),
     THROTTLE |-> ParamDef("0111", "Throttle Position", "%", <<0>>, <<100>>, None, None,
        "medium", 2, "Absolute throttle position")]

VEHICLE_PARAMETERS ==
    [SPEED |-> ParamDef("010D", "Vehicle Speed", "km/h", <<0>>, <<200>>, None, None,
        "high", 1, "Vehicle speed"),
     RUNTIME |-> ParamDef("011F", "Run Time", "seconds", <<0>>, None, None, None,
        "low", 60, "Run time since engine start")]

FUEL_PARAMETERS ==
    [FUEL_PRESSURE |-> ParamDef("010A", "Fuel Pressure", "kPa", <<350>>, <<500>>, <<300>>, <<250>>,
        "medium", 5, "Fuel pressure"),
     FUEL_LEVEL |-> ParamDef("012F", "Fuel Level", "%", <<10>>, <<100>>, <<10>>, <<5>>,
        "medium", 30, "Fuel tank level input"),
     FUEL_RATE |-> ParamDef("015E", "Fuel Rate", "L/h", <<0>>, <<30>>, None, None,
        "low", 5, "Engine fuel rate")]

\* the registry has no CATALYST_TEMP, which the DIAGNOSTIC profile lists
EMISSIONS_PARAMETERS_NoCatalyst ==
    [O2_VOLTAGE |-> ParamDef("0114", "O2 Sensor Voltage", "V", <<0>>, <<11>>, None, None,
        "low", 5, "O2 sensor voltage")]

EMISSIONS_PARAMETERS ==
    [O2_VOLTAGE |-> ParamDef("0114", "O2 Sensor Voltage", "V", <<0>>, <<11>>, None, None,
        "low", 5, "O2 sensor voltage"),
     CATALYST_TEMP |-> ParamDef("013C", "Catalyst Temperature", "C", <<300>>, <<900>>, <<900>>, <<950>>,
        "medium", 10, "Catalyst temperature")]

MONITORING_PARAMETERS ==
    [ENGINE_PARAMETERS |-> ENGINE_PARAMETERS,
     VEHICLE_PARAMETERS |-> VEHICLE_PARAMETERS,
     FUEL_PARAMETERS |-> FUEL_PARAMETERS,
     EMISSIONS_PARAMETERS |-> EMISSIONS_PARAMETERS]

\* every 'CATEGORY.PARAM' of the registry
AllParamPaths ==
    UNION {{<<c, p>> : p \in DOMAIN MONITORING_PARAMETERS[c]} : c \in DOMAIN MONITORING_PARAMETERS}

\* category, param = param_path.split('.'); MONITORING_PARAMETERS[category][param]
ParamInfo(param_path) == MONITORING_PARAMETERS[param_path[1]][param_path[2]]

----------------------------------------------------------------------------
(* Profile Catalog *)

MONITORING_PROFILES ==
    [STANDARD |->
        [name |-> "Standard Monitoring",
         description |-> "Basic vehicle monitoring for everyday driving",
         parameters |-> << <<"ENGINE_PARAMETERS", "RPM">>,
                           <<"ENGINE_PARAMETERS", "COOLANT_TEMP">>,
                           <<"VEHICLE_PARAMETERS", "SPEED">>,
                           <<"FUEL_PARAMETERS", "FUEL_LEVEL">> >>,
         polling_interval |-> 5,
         alert_threshold |-> "warning"],
     PERFORMANCE |->
        [name |-> "Performance Monitoring",
         description |-> "Enhanced monitoring for performance driving",
         parameters |-> << <<"ENGINE_PARAMETERS", "RPM">>,
                           <<"ENGINE_PARAMETERS", "LOAD">>,
                           <<"ENGINE_PARAMETERS", "COOLANT_TEMP">>,
                           <<"ENGINE_PARAMETERS", "INTAKE_TEMP">>,
                           <<"ENGINE_PARAMETERS", "MAF">>,
                           <<"ENGINE_PARAMETERS", "THROTTLE">>,
                           <<"VEHICLE_PARAMETERS", "SPEED">>,
                           <<"FUEL_PARAMETERS", "FUEL_PRESSURE">>,
                           <<"FUEL_PARAMETERS", "FUEL_RATE">>,
                           <<"EMISSIONS_PARAMETERS", "CATALYST_TEMP">> >>,
         polling_interval |-> 1,
         alert_threshold |-> "warning"],
     ECONOMY |->
        [name |-> "Economy Monitoring",
         description |-> "Monitoring focused on fuel efficiency",
         parameters |-> << <<"ENGINE_PARAMETERS", "RPM">>,
                           <<"ENGINE_PARAMETERS", "LOAD">>,
                           <<"ENGINE_PARAMETERS", "THROTTLE">>,
                           <<"VEHICLE_PARAMETERS", "SPEED">>,
                           <<"FUEL_PARAMETERS", "FUEL_LEVEL">>,
                           <<"FUEL_PARAMETERS", "FUEL_RATE">> >>,
         polling_interval |-> 10,
         alert_threshold |-> "warning"],
     DIAGNOSTIC |->
        [name |-> "Diagnostic Monitoring",
         description |-> "Comprehensive monitoring for diagnosing issues",
         parameters |-> << <<"ENGINE_PARAMETERS", "RPM">>,
                           <<"ENGINE_PARAMETERS", "LOAD">>,
                           <<"ENGINE_PARAMETERS", "COOLANT_TEMP">>,
                           <<"ENGINE_PARAMETERS", "INTAKE_TEMP">>,
                           <<"ENGINE_PARAMETERS", "MAF">>,
                           <<"ENGINE_PARAMETERS", "THROTTLE">>,
                           <<"VEHICLE_PARAMETERS", "SPEED">>,
                           <<"VEHICLE_PARAMETERS", "RUNTIME">>,
                           <<"FUEL_PARAMETERS", "FUEL_PRESSURE">>,
                           <<"FUEL_PARAMETERS", "FUEL_LEVEL">>,
                           <<"FUEL_PARAMETERS", "FUEL_RATE">>,
                           <<"EMISSIONS_PARAMETERS", "O2_VOLTAGE">>,
                           <<"EMISSIONS_PARAMETERS", "CATALYST_TEMP">> >>,
         polling_interval |-> 2,
         alert_threshold |-> "warning"]]

\* the profile names a caller passes to start_monitoring: the catalog's and one that is not in it
ProfileArgs == (DOMAIN MONITORING_PROFILES) \cup {"RACING"}

----------------------------------------------------------------------------
(* Status Evaluator *)

\* the side on which a definition's thresholds lie: inferred from the critical
\* threshold (from the warning threshold when there is no critical one) lying
\* at or above max_normal, or at or below min_normal
ThresholdSide(d) ==
    LET ref == IF d.critical_threshold # None THEN d.critical_threshold ELSE d.warning_threshold
    IN  IF ref = None THEN "none"
        ELSE IF d.max_normal # None /\ ref[1] >= d.max_normal[1] THEN "high"
        ELSE IF d.min_normal # None /\ ref[1] <= d.min_normal[1] THEN "low"
        ELSE "none"

\* the value has crossed the threshold th of definition d
Crossed(d, th, v) ==
    /\ th # None
    /\ \/ ThresholdSide(d) = "high" /\ v >= th[1]
       \/ ThresholdSide(d) = "low" /\ v <= th[1]

\* min_normal <= v <= max_normal, an absent bound being open-ended
InNormalRange(d, v) ==
    /\ d.min_normal # None => v >= d.min_normal[1]
    /\ d.max_normal # None => v <= d.max_normal[1]

\* the out-of-range fallback is dropped
determine_parameter_status_NoFallback(param_path, value) ==
    LET d == ParamInfo(param_path)
    IN  IF value = None THEN "unknown"
        ELSE IF Crossed(d, d.critical_threshold, value[1]) THEN "critical"
        ELSE IF Crossed(d, d.warning_threshold, value[1]) THEN "warning"
        ELSE "normal"

determine_parameter_status(param_path, value) ==
    LET d == ParamInfo(param_path)
    IN  IF value = None THEN "unknown"
        ELSE IF Crossed(d, d.critical_threshold, value[1]) THEN "critical"
        ELSE IF Crossed(d, d.warning_threshold, value[1]) THEN "warning"
        ELSE IF InNormalRange(d, value[1]) THEN "normal"
        ELSE "warning"

----------------------------------------------------------------------------
(* Alert Manager *)

Severity == [normal |-> 1, warning |-> 2, critical |-> 3]

\* the sample's status is at least as severe as the profile's alert_threshold
Qualifies(profile, status) ==
    /\ status \in DOMAIN Severity
    /\ Severity[status] >= Severity[MONITORING_PROFILES[profile].alert_threshold]

NewAlert(param_path, status, value) ==
    [parameter |-> param_path, status |-> status, value |-> value,
     timestamp |-> isoformat(now), acknowledged |-> FALSE]

\* a parameter that already has an alert in the session raises no further one
check_alert_Dedup(profile, param_path, status, value, st) ==
    IF Qualifies(profile, status)
       /\ \A i \in DOMAIN st.alerts : st.alerts[i].parameter # param_path
    THEN LET a == NewAlert(param_path, status, value)
         IN  [st EXCEPT !.alerts = Append(@, a),
                        !.doc.current_session.alerts = Append(@, a),
                        !.doc.metadata.total_alerts = @ + 1]
    ELSE st

\* hands one classified sample to the Alert Manager
check_alert(profile, param_path, status, value, st) ==
    IF Qualifies(profile, status)
    THEN LET a == NewAlert(param_path, status, value)
         IN  [st EXCEPT !.alerts = Append(@, a),
                        !.doc.current_session.alerts = Append(@, a),
                        !.doc.metadata.total_alerts = @ + 1]
    ELSE st

----------------------------------------------------------------------------
(* Value Source *)

\* a value inside the normal range that crosses no threshold
NominalValue(d) == IF d.min_normal # None THEN d.min_normal[1] + 1 ELSE d.max_normal[1] - 1

\* values on each side of the normal range, at the critical threshold and
\* between the two thresholds
TestValues(d) ==
    (IF d.min_normal # None THEN {d.min_normal[1] - 1} ELSE {})
    \cup (IF d.max_normal # None THEN {d.max_normal[1] + 1} ELSE {})
    \cup (IF d.critical_threshold # None THEN {d.critical_threshold[1]} ELSE {})
    \cup (IF d.critical_threshold # None /\ d.warning_threshold # None
          THEN {(d.critical_threshold[1] + d.warning_threshold[1]) \div 2} ELSE {})

NominalSource == [k \in AllParamPaths |-> Some(NominalValue(ParamInfo(k)))]

\* the answers of the Value Source while the session life cycle is explored:
\* every parameter nominal, or the engine speed at its critical threshold
SessionSources ==
    {NominalSource,
     [NominalSource EXCEPT ![<<"ENGINE_PARAMETERS", "RPM">>] =
         ENGINE_PARAMETERS.RPM.critical_threshold]}

\* the parameters whose reading the Value Source may make abnormal
FaultPaths == {<<"ENGINE_PARAMETERS", "RPM">>, <<"VEHICLE_PARAMETERS", "SPEED">>,
               <<"FUEL_PARAMETERS", "FUEL_LEVEL">>}

\* what the Value Source answers during one tick: every parameter nominal, every
\* read failing, or one parameter failing or abnormal and the others nominal
Sources ==
    {NominalSource, [k \in AllParamPaths |-> None]}
    \cup {[NominalSource EXCEPT ![k] = None] : k \in FaultPaths}
    \cup UNION {{[NominalSource EXCEPT ![k] = Some(v)] : v \in TestValues(ParamInfo(k))} : k \in FaultPaths}

----------------------------------------------------------------------------
(* The monitoring document *)

EmptySession ==
    [start_time |-> EmptyStr, duration |-> 0, parameters |-> EmptyDict,
     alerts |-> <<>>, dtcs |-> <<>>]

VehicleInfo(vin, make, model, year, engine) ==
    [vin |-> vin, make |-> make, model |-> model, year |-> year, engine |-> engine]

InitialMonitoringData(profile) ==
    [metadata |-> [vehicle_info |-> VehicleInfo("", "", "", "", ""),
                   monitoring_start_time |-> EmptyStr,
                   active_profile |-> profile,
                   total_alerts |-> 0,
                   total_dtcs |-> 0],
     current_session |-> EmptySession,
     historical_sessions |-> <<>>]

\* the vehicle descriptions a caller passes to set_vehicle_info
VehicleInfoArgs == {VehicleInfo("", "", "", "", ""),
                    VehicleInfo("1HGCM82633A004352", "Honda", "Accord", "2003", "2.4L")}

----------------------------------------------------------------------------
(* Persistence Gateway *)

\* writes the document to monitoring_data_file; an I/O failure leaves the file as it was
save_monitoring_data(doc) ==
    \E ok \in BOOLEAN :
        /\ ok \/ saveFailures < MaxSaveFailures
        /\ persisted' = IF ok THEN doc ELSE persisted
        /\ saveFailures' = IF ok THEN saveFailures ELSE saveFailures + 1

----------------------------------------------------------------------------
(* dtc_parser.py: merge_dtc_databases. A trouble code 'P000n' is the number n.
   The 'source' of an entry is a text of source names joined by commas; it is a
   sequence of names here, so that f"{source},rac" is Append(source, "rac") and
   the names the text lists are the elements of the sequence. The fields
   possible_causes and diagnostic_aids, which the merge never reads or writes,
   are left out of an entry *)

\* 'new_2007' is appended to the source of a code of the primary database
\* whether or not the 2007 database has the code, and the 2007 description
\* replaces the primary one
merge_dtc_databases_Overwrite(primary_dtcs, new_2007_dtcs, rac_dtcs) ==
    LET with_2007 ==
            [code \in (DOMAIN primary_dtcs) \cup (DOMAIN new_2007_dtcs) |->
                IF code \notin DOMAIN primary_dtcs THEN new_2007_dtcs[code]
                ELSE IF code \in DOMAIN new_2007_dtcs
                THEN [primary_dtcs[code] EXCEPT
                        !.description = new_2007_dtcs[code].description,
                        !.source = Append(@, "new_2007")]
                ELSE [primary_dtcs[code] EXCEPT !.source = Append(@, "new_2007")]]
    IN  [code \in (DOMAIN with_2007) \cup (DOMAIN rac_dtcs) |->
            IF code \notin DOMAIN rac_dtcs THEN with_2007[code]
            ELSE IF code \in DOMAIN with_2007
            THEN [with_2007[code] EXCEPT !.source = Append(@, "rac")]
            ELSE rac_dtcs[code]]

\* lines 125-154
merge_dtc_databases(primary_dtcs, new_2007_dtcs, rac_dtcs) ==
    LET \* lines 130-143: the primary entries, then the 2007 entries added or merged in
        with_2007 ==
            [code \in (DOMAIN primary_dtcs) \cup (DOMAIN new_2007_dtcs) |->
                IF code \notin DOMAIN new_2007_dtcs THEN primary_dtcs[code]
                ELSE IF code \in DOMAIN primary_dtcs
                THEN [primary_dtcs[code] EXCEPT
                        !.description =
                            IF @ = "" /\ new_2007_dtcs[code].description # ""
                            THEN new_2007_dtcs[code].description
                            ELSE @,
                        !.source = Append(@, "new_2007")]
                ELSE new_2007_dtcs[code]]
    IN  \* lines 146-152: the RAC entries added, or noted in the source
        [code \in (DOMAIN with_2007) \cup (DOMAIN rac_dtcs) |->
            IF code \notin DOMAIN rac_dtcs THEN with_2007[code]
            ELSE IF code \in DOMAIN with_2007
            THEN [with_2007[code] EXCEPT !.source = Append(@, "rac")]
            ELSE rac_dtcs[code]]

\* no merge is under way
NotMerged ==
    [given |-> [primary_dtcs |-> <<>>, new_2007_dtcs |-> <<>>, rac_dtcs |-> <<>>],
     primary_dtcs |-> <<>>, new_2007_dtcs |-> <<>>, rac_dtcs |-> <<>>, merged_dtcs |-> <<>>,
     status |-> "none"]

----------------------------------------------------------------------------
(* Construction *)

Call(op, ret) == [op |-> op, ret |-> ret]

NotEvaluated == [param_path |-> <<>>, value |-> None, status |-> "none"]

\* VehicleMonitor() with the default profile; initialize_monitoring_data saves the fresh document
InitEngine ==
    /\ now = Epoch
    /\ active_profile = "STANDARD"
    /\ monitoring_active = FALSE
    /\ current_values = EmptyDict
    /\ historical_data = EmptyDict
    /\ alerts = <<>>
    /\ last_poll_time = EmptyDict
    /\ monitoring_data = InitialMonitoringData("STANDARD")
    /\ persisted = InitialMonitoringData("STANDARD")
    /\ saveFailures = 0
    /\ call = Call("__init__", "None")
    /\ reads = <<>>
    /\ inflight = <<>>
    /\ tickLog = {}
    /\ readLog = {}

Init ==
    /\ InitEngine
    /\ evaluated = NotEvaluated
    /\ merging = NotMerged

\* lines 253-270, 288-315: a new VehicleMonitor is constructed over the storage the
\* previous one left. The constructor reads nothing of the monitoring document:
\* initialize_monitoring_data builds the fresh document and saves it
VehicleMonitor ==
    LET doc == InitialMonitoringData("STANDARD")
    IN  /\ active_profile' = "STANDARD"
        /\ monitoring_active' = FALSE
        /\ current_values' = EmptyDict
        /\ historical_data' = EmptyDict
        /\ alerts' = <<>>
        /\ last_poll_time' = EmptyDict
        /\ monitoring_data' = doc
        /\ save_monitoring_data(doc)
        /\ call' = Call("__init__", "None")
        /\ reads' = <<>>
        /\ UNCHANGED <<inflight, merging>>
        /\ tickLog' = {}
        /\ readLog' = {}
        /\ UNCHANGED <<now, evaluated>>

----------------------------------------------------------------------------
(* set_vehicle_info *)

\* the document is changed in memory only: the save is missing
set_vehicle_info_NoSave(info) ==
    /\ monitoring_data' = [monitoring_data EXCEPT !.metadata.vehicle_info = info]
    /\ call' = Call("set_vehicle_info", "None")
    /\ reads' = <<>>
    /\ UNCHANGED <<inflight, merging>>
    /\ UNCHANGED <<now, active_profile, monitoring_active, current_values, historical_data,
                   alerts, last_poll_time, persisted, saveFailures, tickLog, readLog, evaluated>>

\* the document is built anew around the vehicle description, as
\* initialize_monitoring_data builds it: the session and the counters are lost
set_vehicle_info_NewDocument(info) ==
    LET doc == [InitialMonitoringData(active_profile) EXCEPT !.metadata.vehicle_info = info]
    IN  /\ monitoring_data' = doc
        /\ save_monitoring_data(doc)
        /\ call' = Call("set_vehicle_info", "None")
        /\ reads' = <<>>
        /\ UNCHANGED <<inflight, merging>>
        /\ UNCHANGED <<now, active_profile, monitoring_active, current_values, historical_data,
                       alerts, last_poll_time, tickLog, readLog, evaluated>>

set_vehicle_info(info) ==
    LET doc == [monitoring_data EXCEPT !.metadata.vehicle_info = info]
    IN  /\ monitoring_data' = doc
        /\ save_monitoring_data(doc)
        /\ call' = Call("set_vehicle_info", "None")
        /\ reads' = <<>>
        /\ UNCHANGED <<inflight, merging>>
        /\ UNCHANGED <<now, active_profile, monitoring_active, current_values, historical_data,
                       alerts, last_poll_time, tickLog, readLog, evaluated>>

----------------------------------------------------------------------------
(* start_monitoring *)

\* the call is refused: nothing but the report of the call changes
Refused(op) ==
    /\ call' = Call(op, "False")
    /\ reads' = <<>>
    /\ UNCHANGED <<inflight, merging>>
    /\ UNCHANGED <<now, active_profile, monitoring_active, current_values, historical_data,
                   alerts, last_poll_time, monitoring_data, persisted, saveFailures,
                   tickLog, readLog, evaluated>>

\* the session is created without its parameter map
NewSession_NoParameters(parameters) ==
    [start_time |-> isoformat(now), duration |-> 0, parameters |-> EmptyDict,
     alerts |-> <<>>, dtcs |-> <<>>]

\* the session the engine opens at `now`
NewSession(parameters) ==
    [start_time |-> isoformat(now), duration |-> 0, parameters |-> parameters,
     alerts |-> <<>>, dtcs |-> <<>>]

\* the counters of the document are set back to zero with the new session
StartSession_ResetCounters(profile) ==
    LET known == profile \in DOMAIN MONITORING_PROFILES
        keys == IF known THEN Range(MONITORING_PROFILES[profile].parameters) ELSE {}
        parameters == [k \in keys |-> [name |-> ParamInfo(k).name, unit |-> ParamInfo(k).unit,
                                       values |-> <<>>, status |-> "unknown"]]
        doc == [monitoring_data EXCEPT !.metadata.active_profile = profile,
                                       !.metadata.monitoring_start_time = isoformat(now),
                                       !.metadata.total_alerts = 0,
                                       !.current_session = NewSession(parameters)]
    IN  /\ active_profile' = profile
        /\ monitoring_active' = TRUE
        /\ monitoring_data' = doc
        /\ current_values' = [k \in keys |-> [value |-> None, unit |-> ParamInfo(k).unit,
                                              timestamp |-> None, status |-> "unknown"]]
        /\ historical_data' = [k \in keys |-> <<>>]
        /\ alerts' = <<>>
        /\ last_poll_time' = [k \in keys |-> 0]
        /\ IF known
           THEN /\ save_monitoring_data(doc)
                /\ call' = Call("start_monitoring", "True")
           ELSE /\ UNCHANGED <<persisted, saveFailures>>
                /\ call' = Call("start_monitoring", "KeyError")
        /\ reads' = <<>>
        /\ UNCHANGED <<inflight, merging>>
        /\ tickLog' = {}
        /\ readLog' = {}
        /\ UNCHANGED <<now, evaluated>>

\* the last poll times of the previous session are kept for the keys of the new one
StartSession_KeepSchedule(profile) ==
    LET known == profile \in DOMAIN MONITORING_PROFILES
        keys == IF known THEN Range(MONITORING_PROFILES[profile].parameters) ELSE {}
        parameters == [k \in keys |-> [name |-> ParamInfo(k).name, unit |-> ParamInfo(k).unit,
                                       values |-> <<>>, status |-> "unknown"]]
        doc == [monitoring_data EXCEPT !.metadata.active_profile = profile,
                                       !.metadata.monitoring_start_time = isoformat(now),
                                       !.current_session = NewSession(parameters)]
    IN  /\ active_profile' = profile
        /\ monitoring_active' = TRUE
        /\ monitoring_data' = doc
        /\ current_values' = [k \in keys |-> [value |-> None, unit |-> ParamInfo(k).unit,
                                              timestamp |-> None, status |-> "unknown"]]
        /\ historical_data' = [k \in keys |-> <<>>]
        /\ alerts' = <<>>
        /\ last_poll_time' = [k \in keys |-> DictGet(last_poll_time, k, 0)]
        /\ IF known
           THEN /\ save_monitoring_data(doc)
                /\ call' = Call("start_monitoring", "True")
           ELSE /\ UNCHANGED <<persisted, saveFailures>>
                /\ call' = Call("start_monitoring", "KeyError")
        /\ reads' = <<>>
        /\ UNCHANGED <<inflight, merging>>
        /\ tickLog' = {}
        /\ readLog' = {}
        /\ UNCHANGED <<now, evaluated>>

\* lines 334-385: the profile is looked up only after the engine was switched to
\* monitoring and the session was replaced, so an unknown name raises KeyError
\* with those assignments made and nothing saved
StartSession(profile) ==
    LET known == profile \in DOMAIN MONITORING_PROFILES
        keys == IF known THEN Range(MONITORING_PROFILES[profile].parameters) ELSE {}
        parameters == [k \in keys |-> [name |-> ParamInfo(k).name, unit |-> ParamInfo(k).unit,
                                       values |-> <<>>, status |-> "unknown"]]
        doc == [monitoring_data EXCEPT !.metadata.active_profile = profile,
                                       !.metadata.monitoring_start_time = isoformat(now),
                                       !.current_session = NewSession(parameters)]
    IN  /\ active_profile' = profile
        /\ monitoring_active' = TRUE
        /\ monitoring_data' = doc
        /\ current_values' = [k \in keys |-> [value |-> None, unit |-> ParamInfo(k).unit,
                                              timestamp |-> None, status |-> "unknown"]]
        /\ historical_data' = [k \in keys |-> <<>>]
        /\ alerts' = <<>>
        /\ last_poll_time' = [k \in keys |-> 0]
        /\ IF known
           THEN /\ save_monitoring_data(doc)
                /\ call' = Call("start_monitoring", "True")
           ELSE /\ UNCHANGED <<persisted, saveFailures>>
                /\ call' = Call("start_monitoring", "KeyError")
        /\ reads' = <<>>
        /\ UNCHANGED <<inflight, merging>>
        /\ tickLog' = {}
        /\ readLog' = {}
        /\ UNCHANGED <<now, evaluated>>

\* the check of monitoring_active is missing
start_monitoring_NoGuard(profile) == StartSession(profile)

start_monitoring(profile) ==
    IF monitoring_active
    THEN Refused("start_monitoring")
    ELSE StartSession(profile)

----------------------------------------------------------------------------
(* stop_monitoring *)

\* the active session is left in place when it is appended to the history
CloseSession_KeepSession ==
    LET start_time == fromisoformat(monitoring_data.current_session.start_time)
        end_time == now
        duration == end_time - start_time
        closed == [monitoring_data.current_session EXCEPT !.duration = duration]
        doc == [monitoring_data EXCEPT !.historical_sessions = Append(@, closed)]
    IN  /\ monitoring_data' = doc
        /\ monitoring_active' = FALSE
        /\ save_monitoring_data(doc)
        /\ call' = Call("stop_monitoring", "True")
        /\ reads' = <<>>
        /\ UNCHANGED <<inflight, merging>>
        /\ UNCHANGED <<now, active_profile, current_values, historical_data, alerts,
                       last_poll_time, tickLog, readLog, evaluated>>

\* the closed session takes the place of the history instead of being appended to it
CloseSession_Overwrite ==
    LET start_time == fromisoformat(monitoring_data.current_session.start_time)
        end_time == now
        duration == end_time - start_time
        closed == [monitoring_data.current_session EXCEPT !.duration = duration]
        doc == [monitoring_data EXCEPT !.historical_sessions = <<closed>>,
                                       !.current_session = EmptySession]
    IN  /\ monitoring_data' = doc
        /\ monitoring_active' = FALSE
        /\ save_monitoring_data(doc)
        /\ call' = Call("stop_monitoring", "True")
        /\ reads' = <<>>
        /\ UNCHANGED <<inflight, merging>>
        /\ UNCHANGED <<now, active_profile, current_values, historical_data, alerts,
                       last_poll_time, tickLog, readLog, evaluated>>

CloseSession ==
    LET start_time == fromisoformat(monitoring_data.current_session.start_time)
        end_time == now
        duration == end_time - start_time
        closed == [monitoring_data.current_session EXCEPT !.duration = duration]
        doc == [monitoring_data EXCEPT !.historical_sessions = Append(@, closed),
                                       !.current_session = EmptySession]
    IN  /\ monitoring_data' = doc
        /\ monitoring_active' = FALSE
        /\ save_monitoring_data(doc)
        /\ call' = Call("stop_monitoring", "True")
        /\ reads' = <<>>
        /\ UNCHANGED <<inflight, merging>>
        /\ UNCHANGED <<now, active_profile, current_values, historical_data, alerts,
                       last_poll_time, tickLog, readLog, evaluated>>

\* the check of monitoring_active is missing and the session is appended to the
\* history before its start time is parsed, which fails on an idle engine
stop_monitoring_NoGuard ==
    IF monitoring_data.current_session.start_time = EmptyStr
    THEN /\ monitoring_data' = [monitoring_data EXCEPT !.historical_sessions =
                                    Append(@, monitoring_data.current_session)]
         /\ call' = Call("stop_monitoring", "ValueError")
         /\ reads' = <<>>
         /\ UNCHANGED <<inflight, merging>>
         /\ UNCHANGED <<now, active_profile, monitoring_active, current_values, historical_data,
                        alerts, last_poll_time, persisted, saveFailures, tickLog, readLog,
                        evaluated>>
    ELSE CloseSession

stop_monitoring ==
    IF ~monitoring_active
    THEN Refused("stop_monitoring")
    ELSE CloseSession

----------------------------------------------------------------------------
(* update_parameters *)

\* the engine state the polling loop works on
LoopState ==
    [last_poll_time |-> last_poll_time, current_values |-> current_values,
     historical_data |-> historical_data, alerts |-> alerts, doc |-> monitoring_data,
     reads |-> <<>>]

\* the comparison with the polling rate is strict
IsDue_Strict(param_path, lpt) ==
    now - DictGet(lpt, param_path, 0) > ParamInfo(param_path).polling_rate

\* line 438: it is time to poll the parameter
IsDue(param_path, lpt) ==
    now - DictGet(lpt, param_path, 0) >= ParamInfo(param_path).polling_rate

\* the sample becomes part of the active session: status always, the value when there is one
RecordInSession(param_path, value, status, st) ==
    [st EXCEPT !.doc.current_session.parameters[param_path].status = status,
               !.doc.current_session.parameters[param_path].values =
                    IF value = None THEN @
                    ELSE Append(@, [value |-> value[1], timestamp |-> isoformat(now)])]

\* lines 437-459 for one parameter of the profile, read from the source src
PollParameter(profile, param_path, src, st) ==
    LET param_info == ParamInfo(param_path)
    IN  IF IsDue(param_path, st.last_poll_time)
        THEN LET value == src[param_path]
                 status == determine_parameter_status(param_path, value)
                 polled == [st EXCEPT
                     !.last_poll_time = DictSet(@, param_path, now),
                     !.reads = Append(@, param_path),
                     !.current_values = DictSet(@, param_path,
                         [value |-> value, unit |-> param_info.unit,
                          timestamp |-> isoformat(now), status |-> status]),
                     !.historical_data[param_path] =
                         Append(@, [value |-> value, timestamp |-> isoformat(now)])]
             IN  check_alert(profile, param_path, status, value,
                             RecordInSession(param_path, value, status, polled))
        ELSE st

\* a failed read ends the loop
RECURSIVE UpdateLoop_AbortOnFailure(_, _, _, _, _)
UpdateLoop_AbortOnFailure(profile, params, i, src, st) ==
    IF i > Len(params) THEN st
    ELSE IF IsDue(params[i], st.last_poll_time) /\ src[params[i]] = None
    THEN [st EXCEPT !.last_poll_time = DictSet(@, params[i], now),
                    !.reads = Append(@, params[i])]
    ELSE UpdateLoop_AbortOnFailure(profile, params, i + 1, src,
                                   PollParameter(profile, params[i], src, st))

\* the loop ends at the first parameter that is not due
RECURSIVE UpdateLoop_StopAtNotDue(_, _, _, _, _)
UpdateLoop_StopAtNotDue(profile, params, i, src, st) ==
    IF i > Len(params) THEN st
    ELSE IF ~IsDue(params[i], st.last_poll_time) THEN st
    ELSE UpdateLoop_StopAtNotDue(profile, params, i + 1, src,
                                 PollParameter(profile, params[i], src, st))

\* line 433: for param_path in profile_params, from the i-th on
RECURSIVE UpdateLoop(_, _, _, _, _)
UpdateLoop(profile, params, i, src, st) ==
    IF i > Len(params) THEN st
    ELSE UpdateLoop(profile, params, i + 1, src, PollParameter(profile, params[i], src, st))

\* the check of monitoring_active is missing: on an idle engine the loop polls
\* the first parameter that is due and fails when it records the sample, the
\* engine holding no session for it
update_parameters_NoGuard(src) ==
    IF active_profile \notin DOMAIN MONITORING_PROFILES
    THEN \* line 430 raises KeyError
         /\ call' = Call("update_parameters", "KeyError")
         /\ reads' = <<>>
         /\ UNCHANGED <<inflight, merging>>
         /\ UNCHANGED <<now, active_profile, monitoring_active, current_values, historical_data,
                        alerts, last_poll_time, monitoring_data, persisted, saveFailures,
                        tickLog, readLog, evaluated>>
    ELSE IF ~monitoring_active
    THEN LET profile_params == MONITORING_PROFILES[active_profile].parameters
             due == {i \in DOMAIN profile_params : IsDue(profile_params[i], last_poll_time)}
             first == CHOOSE i \in due : \A j \in due : i <= j
             param_path == profile_params[first]
         IN  IF due = {}
             THEN /\ save_monitoring_data(monitoring_data)
                  /\ call' = Call("update_parameters", "True")
                  /\ reads' = <<>>
                  /\ UNCHANGED <<inflight, merging>>
                  /\ UNCHANGED <<now, active_profile, monitoring_active, current_values,
                                 historical_data, alerts, last_poll_time, monitoring_data,
                                 tickLog, readLog, evaluated>>
             ELSE /\ last_poll_time' = DictSet(last_poll_time, param_path, now)
                  /\ current_values' = DictSet(current_values, param_path,
                        [value |-> src[param_path], unit |-> ParamInfo(param_path).unit,
                         timestamp |-> isoformat(now),
                         status |-> determine_parameter_status(param_path, src[param_path])])
                  /\ call' = Call("update_parameters", "KeyError")
                  /\ reads' = <<param_path>>
                  /\ UNCHANGED <<inflight, merging>>
                  /\ UNCHANGED <<now, active_profile, monitoring_active, historical_data,
                                 alerts, monitoring_data, persisted, saveFailures, tickLog,
                                 readLog, evaluated>>
    ELSE LET profile_params == MONITORING_PROFILES[active_profile].parameters
             st == UpdateLoop(active_profile, profile_params, 1, src, LoopState)
         IN  /\ last_poll_time' = st.last_poll_time
             /\ current_values' = st.current_values
             /\ historical_data' = st.historical_data
             /\ alerts' = st.alerts
             /\ monitoring_data' = st.doc
             /\ save_monitoring_data(st.doc)
             /\ call' = Call("update_parameters", "True")
             /\ reads' = st.reads
             /\ UNCHANGED <<inflight, merging>>
             /\ tickLog' = tickLog \cup {now}
             /\ readLog' = readLog \cup {<<k, now>> : k \in Range(st.reads)}
             /\ UNCHANGED <<now, active_profile, monitoring_active, evaluated>>

update_parameters(src) ==
    IF ~monitoring_active
    THEN Refused("update_parameters")
    ELSE IF active_profile \notin DOMAIN MONITORING_PROFILES
    THEN \* line 430 raises KeyError
         /\ call' = Call("update_parameters", "KeyError")
         /\ reads' = <<>>
         /\ UNCHANGED <<inflight, merging>>
         /\ UNCHANGED <<now, active_profile, monitoring_active, current_values, historical_data,
                        alerts, last_poll_time, monitoring_data, persisted, saveFailures,
                        tickLog, readLog, evaluated>>
    ELSE LET profile_params == MONITORING_PROFILES[active_profile].parameters
             st == UpdateLoop(active_profile, profile_params, 1, src, LoopState)
         IN  /\ last_poll_time' = st.last_poll_time
             /\ current_values' = st.current_values
             /\ historical_data' = st.historical_data
             /\ alerts' = st.alerts
             /\ monitoring_data' = st.doc
             /\ save_monitoring_data(st.doc)
             /\ call' = Call("update_parameters", "True")
             /\ reads' = st.reads
             /\ UNCHANGED <<inflight, merging>>
             /\ tickLog' = tickLog \cup {now}
             /\ readLog' = readLog \cup {<<k, now>> : k \in Range(st.reads)}
             /\ UNCHANGED <<now, active_profile, monitoring_active, evaluated>>

----------------------------------------------------------------------------
(* update_parameters statement by statement, as it runs when other calls are
   made on the engine before it has returned. The class takes no lock and keeps
   no mark of a running invocation, so the calls of another thread run between
   its statements; the request to the Value Source is where it waits *)

RemoveAt(s, n) == SubSeq(s, 1, n - 1) \o SubSeq(s, n + 1, Len(s))

\* lines 420-430: the guard is passed and the parameters of the profile are fetched
EnterUpdate ==
    IF ~monitoring_active
    THEN Refused("update_parameters")
    ELSE /\ active_profile \in DOMAIN MONITORING_PROFILES
         /\ inflight' = Append(inflight,
                [profile |-> active_profile,
                 params |-> MONITORING_PROFILES[active_profile].parameters,
                 i |-> 1,
                 waiting |-> FALSE,
                 closed |-> Len(monitoring_data.historical_sessions)])
         /\ call' = Call("update_parameters", "entered")
         /\ reads' = <<>>
         /\ UNCHANGED <<now, active_profile, monitoring_active, current_values,
                        historical_data, alerts, last_poll_time, monitoring_data, persisted,
                        saveFailures, tickLog, readLog, evaluated, merging>>

\* lines 433-448 for the next parameter of the n-th invocation: when the
\* parameter is due its last poll time is set and the value is requested
RequestValue(n) ==
    LET t == inflight[n]
        param_path == t.params[t.i]
    IN  /\ t.i <= Len(t.params)
        /\ ~t.waiting
        /\ IF IsDue(param_path, last_poll_time)
           THEN /\ last_poll_time' = DictSet(last_poll_time, param_path, now)
                /\ inflight' = [inflight EXCEPT ![n].waiting = TRUE]
                /\ reads' = <<param_path>>
           ELSE /\ inflight' = [inflight EXCEPT ![n].i = @ + 1]
                /\ reads' = <<>>
                /\ UNCHANGED last_poll_time
        /\ call' = Call("update_parameters", "running")
        /\ UNCHANGED <<now, active_profile, monitoring_active, current_values,
                       historical_data, alerts, monitoring_data, persisted, saveFailures,
                       tickLog, readLog, evaluated, merging>>

\* lines 451-459: the value that came back is written to current_values and
\* appended to historical_data
StoreValue(param_path, value, st) ==
    [st EXCEPT
        !.current_values = DictSet(@, param_path,
            [value |-> value, unit |-> ParamInfo(param_path).unit,
             timestamp |-> isoformat(now),
             status |-> determine_parameter_status(param_path, value)]),
        !.historical_data[param_path] =
            Append(@, [value |-> value, timestamp |-> isoformat(now)])]

\* lines 443-459 and the recording that follows them, for the value the n-th
\* invocation waits for. When the active session has no entry for the
\* parameter, because the session the invocation began in was closed, the
\* sample cannot be recorded in a session and the invocation ends with KeyError
ReceiveValue(n, src) ==
    LET t == inflight[n]
        param_path == t.params[t.i]
        value == src[param_path]
        status == determine_parameter_status(param_path, value)
        stored == StoreValue(param_path, value, LoopState)
        st == check_alert(t.profile, param_path, status, value,
                          RecordInSession(param_path, value, status, stored))
    IN  /\ t.waiting
        /\ current_values' = stored.current_values
        /\ historical_data' = stored.historical_data
        /\ IF param_path \in DOMAIN monitoring_data.current_session.parameters
           THEN /\ alerts' = st.alerts
                /\ monitoring_data' = st.doc
                /\ inflight' = [inflight EXCEPT ![n].waiting = FALSE, ![n].i = @ + 1]
                /\ call' = Call("update_parameters", "running")
           ELSE /\ inflight' = RemoveAt(inflight, n)
                /\ call' = Call("update_parameters", "KeyError")
                /\ UNCHANGED <<alerts, monitoring_data>>
        /\ reads' = <<>>
        /\ UNCHANGED <<now, active_profile, monitoring_active, last_poll_time, persisted,
                       saveFailures, tickLog, readLog, evaluated, merging>>

\* the loop of the n-th invocation is over: the document is saved, True is returned
ReturnFromUpdate(n) ==
    /\ inflight[n].i > Len(inflight[n].params)
    /\ save_monitoring_data(monitoring_data)
    /\ inflight' = RemoveAt(inflight, n)
    /\ call' = Call("update_parameters", "True")
    /\ reads' = <<>>
    /\ UNCHANGED <<now, active_profile, monitoring_active, current_values, historical_data,
                   alerts, last_poll_time, monitoring_data, tickLog, readLog, evaluated, merging>>

----------------------------------------------------------------------------
(* The clock *)

\* d time units pass
AdvanceClock(d, limit) ==
    /\ now + d <= Epoch + limit
    /\ now' = now + d
    /\ call' = Call("clock", "None")
    /\ reads' = <<>>
    /\ UNCHANGED <<inflight, merging>>
    /\ UNCHANGED <<active_profile, monitoring_active, current_values, historical_data,
                   alerts, last_poll_time, monitoring_data, persisted, saveFailures,
                   tickLog, readLog, evaluated>>

---------------------------------------------------------------------------------------------------------------------------------------------------
(* The session life cycle: every call of the control surface, any profile name *)

\* no save fails
StorageWorks == saveFailures' = saveFailures

SetVehicleInfo ==
    /\ StorageWorks
    /\ \E info \in VehicleInfoArgs : set_vehicle_info(info)

StartMonitoring ==
    /\ StorageWorks
    /\ \E profile \in ProfileArgs :
            /\ monitoring_active \/ Len(monitoring_data.historical_sessions) < MaxSessions
            /\ start_monitoring(profile)

StopMonitoring ==
    /\ StorageWorks
    /\ stop_monitoring

Tick ==
    /\ StorageWorks
    /\ \E src \in SessionSources : update_parameters(src)

ClockTick == AdvanceClock(1, MaxTime)

Next == SetVehicleInfo \/ StartMonitoring \/ StopMonitoring \/ Tick \/ ClockTick

Spec == Init /\ [][Next]_vars

----------------------------------------------------------------------------
(* One session under every answer of the Value Source *)

StartCatalogProfile ==
    /\ StorageWorks
    /\ \E profile \in DOMAIN MONITORING_PROFILES : start_monitoring(profile)

FaultyTick ==
    /\ StorageWorks
    /\ \E src \in Sources : update_parameters(src)

FaultClockTick == AdvanceClock(1, FaultTime)

NextFaults == StartCatalogProfile \/ FaultyTick \/ FaultClockTick

SpecFaults == Init /\ [][NextFaults]_vars

----------------------------------------------------------------------------
(* The polling schedule over a long run of one session: update_parameters runs
   at every time the clock shows while the engine monitors, and the clock moves
   by one or by two units *)

NominalTick ==
    /\ StorageWorks
    /\ update_parameters(NominalSource)

SchedClockTick ==
    /\ monitoring_active => now \in tickLog
    /\ \E d \in 1..2 : AdvanceClock(d, SchedHorizon)

NextSched == StartCatalogProfile \/ NominalTick \/ SchedClockTick

SpecSched == Init /\ [][NextSched]_vars

----------------------------------------------------------------------------
(* Several sessions one after the other, and engines constructed one after the
   other over the same storage *)

\* the profile names of the calls: one of the catalog and one that is not in it
SessionProfiles == {"STANDARD", "RACING"}

StartNextSession ==
    /\ StorageWorks
    /\ \E profile \in SessionProfiles :
            /\ monitoring_active \/ Len(monitoring_data.historical_sessions) <= MaxSessions
            /\ start_monitoring(profile)

SessionTick ==
    /\ StorageWorks
    /\ \E src \in SessionSources : update_parameters(src)

SessionClockTick == AdvanceClock(1, SessionTime)

Restart ==
    /\ StorageWorks
    /\ VehicleMonitor

NextSessions ==
    StartNextSession \/ StopMonitoring \/ SessionTick \/ SessionClockTick \/ Restart
        \/ SetVehicleInfo

SpecSessions == Init /\ [][NextSessions]_vars

----------------------------------------------------------------------------
(* The life cycle over a storage that may fail: each save of each call either
   succeeds or fails, up to MaxSaveFailures failures in a run *)

UnreliableSetVehicleInfo == \E info \in VehicleInfoArgs : set_vehicle_info(info)

UnreliableStart ==
    /\ monitoring_active \/ Len(monitoring_data.historical_sessions) < MaxSessions
    /\ start_monitoring("STANDARD")

UnreliableStop == stop_monitoring

UnreliableTick == \E src \in SessionSources : update_parameters(src)

NextStorage == UnreliableSetVehicleInfo \/ UnreliableStart \/ UnreliableStop \/ UnreliableTick

SpecStorage == Init /\ [][NextStorage]_vars

----------------------------------------------------------------------------
(* Calls made from several threads during one session: start_monitoring and
   stop_monitoring run between the statements of the invocations of
   update_parameters *)

\* one session: it is started on the new engine only
ThreadStart ==
    /\ StorageWorks
    /\ monitoring_data.historical_sessions = <<>>
    /\ start_monitoring("STANDARD")

ThreadStop ==
    /\ StorageWorks
    /\ stop_monitoring

ThreadEnter ==
    /\ Len(inflight) < MaxInFlight
    /\ EnterUpdate

ThreadRequest == \E n \in DOMAIN inflight : RequestValue(n)

ThreadReceive == \E n \in DOMAIN inflight : \E src \in SessionSources : ReceiveValue(n, src)

ThreadReturn ==
    /\ StorageWorks
    /\ \E n \in DOMAIN inflight : ReturnFromUpdate(n)

NextThreads ==
    ThreadStart \/ ThreadStop \/ ThreadEnter \/ ThreadRequest \/ ThreadReceive \/ ThreadReturn

SpecThreads == Init /\ [][NextThreads]_vars

----------------------------------------------------------------------------
(* merge_dtc_databases applied to the databases of up to MaxCodes trouble codes *)

Codes == 1 .. MaxCodes

\* the entries extract_dtcs_from_primary builds for a code (lines 76-84)
PrimaryEntries(code) ==
    {[code |-> code, title |-> "primary title", description |-> d, source |-> <<"primary">>] :
        d \in {"", "primary description"}}

\* the entries extract_dtcs_from_new_2007 builds for a code (lines 105-113)
New2007Entries(code) ==
    {[code |-> code, title |-> d, description |-> d, source |-> <<"new_2007">>] :
        d \in {"", "2007 description"}}

\* an entry of the RAC source, of which extract_dtcs_from_rac yields none (lines 119-123)
RacEntries(code) ==
    {[code |-> code, title |-> "rac title", description |-> "rac description",
      source |-> <<"rac">>]}

\* the databases over some of the codes, entries[c] being the entries a code c can have
Databases(entries) ==
    UNION {{db \in [S -> UNION {entries[c] : c \in S}] : \A c \in S : db[c] \in entries[c]} :
            S \in SUBSET Codes}

\* `given` keeps the databases as they were passed to the call
MergeInputs ==
    {[given |-> [primary_dtcs |-> p, new_2007_dtcs |-> n, rac_dtcs |-> r],
      primary_dtcs |-> p, new_2007_dtcs |-> n, rac_dtcs |-> r, merged_dtcs |-> <<>>,
      status |-> "pending"] :
        p \in Databases([c \in Codes |-> PrimaryEntries(c)]),
        n \in Databases([c \in Codes |-> New2007Entries(c)]),
        r \in Databases([c \in Codes |-> RacEntries(c)])}

InitMerge ==
    /\ InitEngine
    /\ evaluated = NotEvaluated
    /\ merging \in MergeInputs

\* the call of lines 125-154. merged_dtcs.update(primary_dtcs) and
\* merged_dtcs[code] = dtc_info put the entry objects of the sources into the
\* result, so what the merge writes to an entry shows in the database the
\* entry came from
Merge ==
    /\ merging.status = "pending"
    /\ LET p == merging.primary_dtcs
           n == merging.new_2007_dtcs
           r == merging.rac_dtcs
           merged == merge_dtc_databases(p, n, r)
       IN  merging' = [merging EXCEPT
               !.merged_dtcs = merged,
               !.primary_dtcs = [c \in DOMAIN p |-> merged[c]],
               !.new_2007_dtcs =
                    [c \in DOMAIN n |-> IF c \in DOMAIN p THEN n[c] ELSE merged[c]],
               !.rac_dtcs =
                    [c \in DOMAIN r |->
                        IF c \in (DOMAIN p) \cup (DOMAIN n) THEN r[c] ELSE merged[c]],
               !.status = "done"]
    /\ UNCHANGED <<now, active_profile, monitoring_active, current_values, historical_data,
                   alerts, last_poll_time, monitoring_data, persisted, saveFailures,
                   call, reads, tickLog, readLog, evaluated, inflight>>

NextMerge == Merge

SpecMerge == InitMerge /\ [][NextMerge]_vars

----------------------------------------------------------------------------
(* The Status Evaluator applied to every definition of the registry *)

\* the bounds and thresholds a definition declares
DeclaredBounds(d) ==
    {b[1] : b \in {d.min_normal, d.max_normal, d.warning_threshold, d.critical_threshold} \ {None}}

Min(S) == CHOOSE x \in S : \A y \in S : x <= y

Max(S) == CHOOSE x \in S : \A y \in S : x >= y

\* every value from Margin below the lowest declared bound to Margin above the highest
EvalValues(param_path) ==
    LET B == DeclaredBounds(ParamInfo(param_path))
    IN  (Min(B) - Margin) .. (Max(B) + Margin)

\* the inputs of the examples: RPM 300, 6200 and 6500
EvalExamples ==
    {[param_path |-> <<"ENGINE_PARAMETERS", "RPM">>, value |-> Some(v), status |-> "pending"] :
        v \in {300, 6200, 6500}}

EvalInputs ==
    UNION {{[param_path |-> k, value |-> Some(v), status |-> "pending"] : v \in EvalValues(k)}
           \cup {[param_path |-> k, value |-> None, status |-> "pending"]} : k \in AllParamPaths}
    \cup EvalExamples

InitEval ==
    /\ InitEngine
    /\ evaluated \in EvalInputs
    /\ merging = NotMerged

Evaluate ==
    /\ evaluated.status = "pending"
    /\ evaluated' = [evaluated EXCEPT
           !.status = determine_parameter_status(evaluated.param_path, evaluated.value)]
    /\ UNCHANGED <<now, active_profile, monitoring_active, current_values, historical_data,
                   alerts, last_poll_time, monitoring_data, persisted, saveFailures,
                   call, reads, tickLog, readLog, inflight, merging>>

NextEval == Evaluate

SpecEval == InitEval /\ [][NextEval]_vars

----------------------------------------------------------------------------
(* Properties of the session state machine *)

historical_sessions == monitoring_data.historical_sessions

current_session == monitoring_data.current_session

\* C1: start_monitoring called while the engine is monitoring reports failure
\* and changes nothing: the engine stays monitoring and the session (with its
\* start time), the active profile, last_poll_time, the current values, the
\* alerts and the history are as before the call.
C1_StartWhileMonitoringRefused ==
    [][(monitoring_active /\ call'.op = "start_monitoring")
        => /\ call'.ret = "False"
           /\ monitoring_active'
           /\ UNCHANGED <<active_profile, last_poll_time, current_values, alerts,
                          historical_data, monitoring_data, persisted>>]_vars

\* a monitoring engine with samples taken has just refused a start
C1_Witness ==
    /\ monitoring_active
    /\ call = Call("start_monitoring", "False")
    /\ current_session.start_time # EmptyStr
    /\ \E k \in DOMAIN historical_data : historical_data[k] # <<>>

\* C2: stop_monitoring called while the engine is idle reports failure, appends
\* nothing to the historical sessions and leaves the engine idle with the
\* document unchanged.
C2_StopWhileIdleRefused ==
    [][(~monitoring_active /\ call'.op = "stop_monitoring")
        => /\ call'.ret = "False"
           /\ ~monitoring_active'
           /\ Len(historical_sessions') = Len(historical_sessions)
           /\ UNCHANGED <<monitoring_data, persisted>>]_vars

\* an idle engine has just refused a stop
C2_Witness ==
    /\ ~monitoring_active
    /\ call = Call("stop_monitoring", "False")

\* C3: a stop that follows a successful start appends exactly one session to the
\* history; the closed session has a non-empty start timestamp, a non-empty end
\* timestamp and duration = time of stop - start time >= 0; the active session
\* is the empty placeholder again and the engine is idle.
C3_StopClosesSession ==
    [][(/\ monitoring_active
        /\ active_profile \in DOMAIN MONITORING_PROFILES
        /\ call'.op = "stop_monitoring")
        => /\ call'.ret = "True"
           /\ Len(historical_sessions') = Len(historical_sessions) + 1
           /\ LET closed == Last(historical_sessions')
              IN  /\ closed.start_time # EmptyStr
                  /\ closed.start_time = current_session.start_time
                  /\ "end_time" \in DOMAIN closed
                  /\ closed.end_time # EmptyStr
                  /\ closed.duration = now - fromisoformat(current_session.start_time)
                  /\ closed.duration >= 0
           /\ current_session' = EmptySession
           /\ ~monitoring_active']_vars

\* C5: start_monitoring called on an idle engine with a name that is not in the
\* catalog fails and leaves the engine idle, with the document's active profile,
\* the active session and last_poll_time unchanged.
C5_UnknownProfileLeavesIdle ==
    [][(/\ ~monitoring_active
        /\ call'.op = "start_monitoring"
        /\ call'.ret # "True")
        => /\ ~monitoring_active'
           /\ monitoring_data'.metadata.active_profile = monitoring_data.metadata.active_profile
           /\ current_session' = current_session
           /\ current_session' = EmptySession
           /\ last_poll_time' = last_poll_time]_vars

----------------------------------------------------------------------------
(* Properties of the polling scheduler *)

\* the engine monitors under a profile of the catalog
Polling == monitoring_active /\ active_profile \in DOMAIN MONITORING_PROFILES

ActiveParams == Range(MONITORING_PROFILES[active_profile].parameters)

polling_rate(k) == MONITORING_PARAMETERS[k[1]][k[2]].polling_rate

\* the parameters of the active profile whose polling rate has elapsed at `now`
Elapsed == {k \in ActiveParams : now - last_poll_time[k] >= polling_rate(k)}

\* the times at which parameter k was requested from the Value Source in the running session
ReadTimes(k) == {t \in tickLog : <<k, t>> \in readLog}

\* in a call of update_parameters, a parameter is requested from the Value
\* Source iff the engine monitors and the parameter's polling rate has elapsed,
\* and it is requested once
C4_ReadIffDue ==
    call'.op = "update_parameters"
        => /\ Range(reads') = IF Polling THEN Elapsed ELSE {}
           /\ Len(reads') = Cardinality(Range(reads'))

\* when update_parameters has run at every time unit since the first tick, a
\* parameter of polling rate N was requested at the relative ticks 0, N, 2N, ... only
C4_ReadEveryNthTick ==
    (Polling /\ tickLog # {} /\ tickLog = Min(tickLog) .. Max(tickLog))
        => \A k \in ActiveParams :
              ReadTimes(k) = {t \in tickLog : (t - Min(tickLog)) % polling_rate(k) = 0}

\* C4: a parameter of the active profile is read in a tick iff the engine is
\* monitoring and now - last_poll_time[key] >= its polling rate; so a parameter
\* of rate N ticked once per time unit is read at relative ticks 0, N, 2N, ...
\* and at no other tick.
C4_PollingSchedule == [][C4_ReadIffDue]_vars /\ []C4_ReadEveryNthTick

\* ticks at eleven consecutive time units have read a parameter of rate 5 three
\* times and a parameter of rate 1 eleven times
C4_Witness ==
    /\ Polling
    /\ tickLog = Epoch .. (Epoch + 10)
    /\ \E k \in ActiveParams : polling_rate(k) = 5 /\ Cardinality(ReadTimes(k)) = 3
    /\ \E k \in ActiveParams : polling_rate(k) = 1 /\ Cardinality(ReadTimes(k)) = 11

\* C6: when the Value Source fails for a due parameter, every other parameter
\* due in the same tick is still read, evaluated and recorded in that tick.
C6_FailureIsolated ==
    [][(Polling /\ call'.op = "update_parameters")
        => /\ call'.ret = "True"
           /\ \A k \in Elapsed :
                /\ k \in Range(reads')
                /\ last_poll_time'[k] = now
                /\ current_values'[k].timestamp = isoformat(now)
                /\ current_values'[k].status
                       = determine_parameter_status(k, current_values'[k].value)
                /\ current_values'[k].value # None
                     => /\ Len(historical_data'[k]) = Len(historical_data[k]) + 1
                        /\ Last(historical_data'[k]).value = current_values'[k].value
                        /\ current_session'.parameters[k].status = current_values'[k].status
                        /\ Len(current_session'.parameters[k].values)
                               = Len(current_session.parameters[k].values) + 1]_vars

\* in the last tick the first parameter polled failed and three later ones were
\* read and classified normal
C6_Witness ==
    /\ Polling
    /\ call = Call("update_parameters", "True")
    /\ Len(reads) >= 4
    /\ current_values[reads[1]].value = None
    /\ \A i \in 2..Len(reads) :
          /\ current_values[reads[i]].status = "normal"
          /\ Len(historical_data[reads[i]]) = 1

\* C7: a failed acquisition for a due parameter gives the parameter's current
\* value the status unknown and appends no sample to the parameter's history.
C7_FailedReadNotInHistory ==
    [][(Polling /\ call'.op = "update_parameters")
        => \A k \in Range(reads') :
              current_values'[k].value = None
                 => /\ current_values'[k].status = "unknown"
                    /\ Len(historical_data'[k]) = Len(historical_data[k])]_vars

----------------------------------------------------------------------------
(* Properties of the Status Evaluator *)

\* the evaluator has classified a present value v of definition d
Classified == evaluated.status \notin {"none", "pending"} /\ evaluated.value # None

EvaluatedDef == MONITORING_PARAMETERS[evaluated.param_path[1]][evaluated.param_path[2]]

BothThresholds(d) == d.warning_threshold # None /\ d.critical_threshold # None

StrictlyBetween(v, a, b) == (a < v /\ v < b) \/ (b < v /\ v < a)

\* C8: for every definition with both thresholds set, on the high side as on
\* the low side, a value equal to critical_threshold is classified critical and
\* a value strictly between warning_threshold and critical_threshold warning.
C8_MonotonicSeverity ==
    (Classified /\ BothThresholds(EvaluatedDef))
        => LET v == evaluated.value[1]
               w == EvaluatedDef.warning_threshold[1]
               c == EvaluatedDef.critical_threshold[1]
           IN  /\ v = c => evaluated.status = "critical"
               /\ StrictlyBetween(v, w, c) => evaluated.status = "warning"

\* a fuel pressure between the low-side thresholds 250 and 300 was classified warning
C8_Witness ==
    /\ evaluated.param_path = <<"FUEL_PARAMETERS", "FUEL_PRESSURE">>
    /\ evaluated.value = Some(275)
    /\ evaluated.status = "warning"

\* C9: a present value outside [min_normal, max_normal] (an absent bound being
\* open-ended) is never classified normal but warning or critical, also for a
\* definition without thresholds and on the side without a threshold (RPM 300
\* is warning); normal is given only to values inside the range that cross no
\* threshold.
C9_OutOfRangeNeverNormal ==
    Classified
        => LET d == EvaluatedDef
               v == evaluated.value[1]
               inside == /\ d.min_normal # None => d.min_normal[1] <= v
                         /\ d.max_normal # None => v <= d.max_normal[1]
           IN  /\ ~inside => evaluated.status \in {"warning", "critical"}
               /\ evaluated.status = "normal"
                    => /\ inside
                       /\ ~Crossed(d, d.warning_threshold, v)
                       /\ ~Crossed(d, d.critical_threshold, v)
               /\ (evaluated.param_path = <<"ENGINE_PARAMETERS", "RPM">> /\ v = 300)
                    => evaluated.status = "warning"

\* a speed above max_normal, of a definition without thresholds, was classified warning
C9_Witness ==
    /\ evaluated.param_path = <<"VEHICLE_PARAMETERS", "SPEED">>
    /\ evaluated.value = Some(201)
    /\ evaluated.status = "warning"

----------------------------------------------------------------------------
(* Properties of the Alert Manager *)

\* status is at least as severe as threshold in the order normal < warning < critical
AtLeastAsSevere(status, threshold) ==
    \/ threshold = "normal" /\ status \in {"normal", "warning", "critical"}
    \/ threshold = "warning" /\ status \in {"warning", "critical"}
    \/ threshold = "critical" /\ status = "critical"

\* C10: each classified sample appends exactly one alert to the active session
\* iff its status is at least as severe as the active profile's alert_threshold;
\* a sample of status unknown raises none, and repeated qualifying samples of a
\* parameter each raise their own alert.
C10_AlertPerQualifyingSample ==
    [][(Polling /\ call'.op = "update_parameters")
        => LET old == current_session.alerts
               new == current_session'.alerts
               threshold == MONITORING_PROFILES[active_profile].alert_threshold
               qualifying == SelectSeq(reads',
                                 LAMBDA k : AtLeastAsSevere(current_values'[k].status, threshold))
           IN  /\ Len(new) = Len(old) + Len(qualifying)
               /\ SubSeq(new, 1, Len(old)) = old
               /\ \A i \in 1..Len(qualifying) :
                     /\ new[Len(old) + i].parameter = qualifying[i]
                     /\ new[Len(old) + i].status = current_values'[qualifying[i]].status
                     /\ new[Len(old) + i].value = current_values'[qualifying[i]].value
                     /\ new[Len(old) + i].timestamp = isoformat(now)]_vars

\* the session holds two alerts of one parameter, raised by samples of two ticks
C10_Witness ==
    /\ Polling
    /\ \E i, j \in DOMAIN current_session.alerts :
          /\ i < j
          /\ current_session.alerts[i].parameter = current_session.alerts[j].parameter
          /\ current_session.alerts[i].timestamp # current_session.alerts[j].timestamp

----------------------------------------------------------------------------
(* C11 *)

RECURSIVE AlertsIn(_)
\* the number of alerts recorded in a sequence of sessions
AlertsIn(sessions) ==
    IF sessions = <<>> THEN 0 ELSE Len(Head(sessions).alerts) + AlertsIn(Tail(sessions))

total_alerts == monitoring_data.metadata.total_alerts

\* C11: the total-alerts counter of the document always equals the number of
\* alerts in all historical sessions plus those of the active session; no call
\* to a constructed engine decreases it, start_monitoring and stop_monitoring
\* leave it as it is, and update_parameters raises it by exactly the number of
\* alerts it raised
C11_LifetimeAlertCounter ==
    /\ [](total_alerts = AlertsIn(historical_sessions) + Len(current_session.alerts))
    /\ [][call'.op # "__init__"
            => /\ total_alerts' >= total_alerts
               /\ call'.op \in {"start_monitoring", "stop_monitoring"}
                    => total_alerts' = total_alerts
               /\ call'.op = "update_parameters"
                    => total_alerts' = total_alerts + Len(alerts') - Len(alerts)]_vars

\* a second session has raised alerts after a first one that raised alerts was closed
C11_Witness ==
    /\ monitoring_active
    /\ Len(historical_sessions) >= 1
    /\ Len(historical_sessions[1].alerts) >= 1
    /\ Len(current_session.alerts) >= 1
    /\ total_alerts >= 2

----------------------------------------------------------------------------
(* C12 *)

IsPrefix(s, t) == Len(s) <= Len(t) /\ SubSeq(t, 1, Len(s)) = s

\* C12: from a start to the stop that matches it the alert list of the active
\* session only grows at its end: every step that leaves the engine monitoring
\* keeps the alerts recorded so far, in place and unaltered, and the stop hands
\* the list as it is to the history
C12_SessionAlertsAppendOnly ==
    [][/\ (monitoring_active /\ monitoring_active')
            => /\ IsPrefix(current_session.alerts, current_session'.alerts)
               /\ IsPrefix(alerts, alerts')
       /\ (monitoring_active /\ call'.op = "stop_monitoring")
            => Last(historical_sessions').alerts = current_session.alerts]_vars

\* a session that already held an alert has taken a second one
C12_Witness ==
    /\ monitoring_active
    /\ call = Call("update_parameters", "True")
    /\ Len(current_session.alerts) >= 2
    /\ current_session.alerts[1].timestamp # Last(current_session.alerts).timestamp

----------------------------------------------------------------------------
(* C13 *)

\* C13: every mutating operation saves the document before it returns, so that
\* between two calls, when no save has failed, the persisted document equals
\* the document in memory
C13_WriteThrough == persisted = monitoring_data

----------------------------------------------------------------------------
(* C14 *)

\* C14: an engine constructed over a well-formed persisted document takes that
\* document over, so that its history, its vehicle metadata and its counters
\* survive, and the persisted history is still there after the construction
C14_RestartKeepsDocument ==
    [][call'.op = "__init__"
        => /\ historical_sessions' = persisted.historical_sessions
           /\ total_alerts' = persisted.metadata.total_alerts
           /\ monitoring_data'.metadata.vehicle_info = persisted.metadata.vehicle_info
           /\ persisted'.historical_sessions = persisted.historical_sessions]_vars

----------------------------------------------------------------------------
(* C15 *)

\* the calls that change the document and end with a save
Mutating == {"set_vehicle_info", "start_monitoring", "stop_monitoring", "update_parameters"}

\* the call of this step went through to its end
Completed == call'.op \in Mutating /\ call'.ret \in {"None", "True"}

SaveFailed == saveFailures' = saveFailures + 1

\* C15: a save that fails is not fatal: the call completes with its normal
\* result and its effect in memory while the persisted document stays as it
\* was; every later mutating call saves again, and the first save that
\* succeeds makes the persisted document equal to the document in memory
C15_SaveFailureNotFatal ==
    [][/\ SaveFailed
            => /\ Completed
               /\ persisted' = persisted
               /\ call'.op = "start_monitoring"
                    => monitoring_active' /\ current_session'.start_time = isoformat(now)
               /\ call'.op = "stop_monitoring"
                    => /\ ~monitoring_active'
                       /\ Len(historical_sessions') = Len(historical_sessions) + 1
               /\ call'.op = "update_parameters"
                    => \A k \in DOMAIN last_poll_time :
                            IsDue(k, last_poll_time) => last_poll_time'[k] = now
               /\ call'.op = "set_vehicle_info"
                    => monitoring_data'.metadata.vehicle_info \in VehicleInfoArgs
       /\ Completed => SaveFailed \/ persisted' = monitoring_data']_vars

\* a save has failed, and a later update_parameters that recorded samples has
\* brought the persisted document level with the one in memory
C15_Witness ==
    /\ saveFailures >= 1
    /\ call = Call("update_parameters", "True")
    /\ reads # <<>>
    /\ persisted = monitoring_data
    /\ \E k \in DOMAIN current_session.parameters : current_session.parameters[k].values # <<>>

----------------------------------------------------------------------------
(* C16 *)

\* C16: stop_monitoring called while an invocation of update_parameters is
\* running waits until that invocation is through with its parameters: no
\* session is closed while an invocation has not returned, so that all its
\* samples and alerts are in the session the stop appends to the history
C16_StopWaitsForTick ==
    [][(call'.op = "stop_monitoring" /\ call'.ret = "True") => inflight = <<>>]_vars

----------------------------------------------------------------------------
(* C17 *)

\* C17: at most one invocation of update_parameters is running at any time; one
\* made while another has not returned is skipped
C17_AtMostOneTick == Len(inflight) <= 1

----------------------------------------------------------------------------
(* C18 *)

\* C18: what a reader sees at any moment is a consistent snapshot, never an
\* update applied in part: a parameter whose last poll time is set has the
\* sample of that time as its current value and as the last of its history
C18_ConsistentSnapshot ==
    \A k \in DOMAIN last_poll_time :
        last_poll_time[k] > 0
            => /\ current_values[k].timestamp = isoformat(last_poll_time[k])
               /\ historical_data[k] # <<>>
               /\ Last(historical_data[k]).timestamp = isoformat(last_poll_time[k])

----------------------------------------------------------------------------
(* C19 *)

\* C19: the engine starts Idle and is at any time either Idle or Monitoring;
\* while it is Monitoring the active session has a start time and no end time,
\* while it is Idle the active session is the empty placeholder, whatever
\* calls were made before, those that failed included
C19_IdleOrMonitoring ==
    /\ ~monitoring_active
    /\ [](/\ monitoring_active \in BOOLEAN
          /\ monitoring_active
                => /\ current_session.start_time # EmptyStr
                   /\ "end_time" \notin DOMAIN current_session
          /\ ~monitoring_active => current_session = EmptySession)

\* Idle again after a session that was started by a call that failed
C19_Witness ==
    /\ ~monitoring_active
    /\ active_profile \notin DOMAIN MONITORING_PROFILES
    /\ Len(historical_sessions) >= 1
    /\ current_session = EmptySession

----------------------------------------------------------------------------
(* C20 *)

\* the parameters of the profile the engine runs, none for a name that is no profile
ProfileKeys ==
    IF active_profile \in DOMAIN MONITORING_PROFILES
    THEN Range(MONITORING_PROFILES[active_profile].parameters)
    ELSE {}

\* C20: while the engine is Monitoring no call changes the active profile or
\* the set of parameter keys of the active session, and the keys under which
\* the session and the engine hold samples are those of the profile the
\* session was started with
C20_ProfileFixedWhileMonitoring ==
    /\ [][(monitoring_active /\ monitoring_active')
            => /\ active_profile' = active_profile
               /\ monitoring_data'.metadata.active_profile = monitoring_data.metadata.active_profile
               /\ DOMAIN current_session'.parameters = DOMAIN current_session.parameters]_vars
    /\ [](monitoring_active
            => /\ monitoring_data.metadata.active_profile = active_profile
               /\ DOMAIN current_session.parameters = ProfileKeys
               /\ DOMAIN historical_data = ProfileKeys
               /\ DOMAIN current_values = ProfileKeys)

\* a session of the DIAGNOSTIC profile holds a sample of each of its parameters
\* and has just refused a start_monitoring
C20_Witness ==
    /\ monitoring_active
    /\ active_profile = "DIAGNOSTIC"
    /\ call = Call("start_monitoring", "False")
    /\ \A k \in ProfileKeys : current_session.parameters[k].values # <<>>

----------------------------------------------------------------------------
(* C21 *)

\* the definition under evaluation has its thresholds in the order of the high side
HighSideStrict(d) ==
    /\ d.max_normal # None
    /\ d.critical_threshold[1] >= d.warning_threshold[1]
    /\ d.warning_threshold[1] >= d.max_normal[1]
    /\ d.critical_threshold[1] > d.max_normal[1]

LowSideStrict(d) ==
    /\ d.min_normal # None
    /\ d.critical_threshold[1] <= d.warning_threshold[1]
    /\ d.warning_threshold[1] <= d.min_normal[1]
    /\ d.critical_threshold[1] < d.min_normal[1]

\* C21 as stated: every definition has a polling rate above 0, and one with
\* both thresholds has critical >= warning >= max_normal with critical above
\* max_normal, or critical <= warning <= min_normal with critical below
\* min_normal
C21_ThresholdsBeyondNormalRange ==
    evaluated.param_path \in AllParamPaths
        => /\ EvaluatedDef.polling_rate > 0
           /\ BothThresholds(EvaluatedDef)
                => HighSideStrict(EvaluatedDef) \/ LowSideStrict(EvaluatedDef)

HighSide(d) ==
    /\ d.max_normal # None
    /\ d.critical_threshold[1] >= d.warning_threshold[1]
    /\ d.critical_threshold[1] >= d.max_normal[1]

LowSide(d) ==
    /\ d.min_normal # None
    /\ d.critical_threshold[1] <= d.warning_threshold[1]
    /\ d.critical_threshold[1] <= d.min_normal[1]

\* C21, amended: every definition has a polling rate above 0, and one with
\* both thresholds has, on exactly one side, its critical threshold at or
\* beyond the bound of the normal range and at least as far out as its warning
\* threshold; the warning threshold may lie inside the normal range and the
\* critical threshold on its bound, as those of RPM do (6000 and 6500 with
\* max_normal 6500)
C21_CriticalBeyondWarning ==
    evaluated.param_path \in AllParamPaths
        => /\ EvaluatedDef.polling_rate > 0
           /\ BothThresholds(EvaluatedDef)
                => /\ HighSide(EvaluatedDef) \/ LowSide(EvaluatedDef)
                   /\ ~(HighSide(EvaluatedDef) /\ LowSide(EvaluatedDef))

\* an RPM of 6200, inside the normal range and past the warning threshold, was
\* classified with the definition whose critical threshold is max_normal
C21_Witness ==
    /\ evaluated.param_path = <<"ENGINE_PARAMETERS", "RPM">>
    /\ evaluated.value = Some(6200)
    /\ evaluated.status = "warning"
    /\ EvaluatedDef.critical_threshold = EvaluatedDef.max_normal

----------------------------------------------------------------------------
(* C22 *)

\* C22: every parameter key of every profile of MONITORING_PROFILES is a key of
\* MONITORING_PARAMETERS; start_monitoring has looked each of them up, so the
\* keys the engine polls all resolve and update_parameters never fails on the
\* lookup of a parameter
C22_ProfileKeysResolve ==
    /\ \A p \in DOMAIN MONITORING_PROFILES :
            Range(MONITORING_PROFILES[p].parameters) \subseteq AllParamPaths
    /\ monitoring_active
            => /\ DOMAIN last_poll_time = Range(MONITORING_PROFILES[active_profile].parameters)
               /\ DOMAIN last_poll_time \subseteq AllParamPaths
    /\ Range(reads) \subseteq AllParamPaths
    /\ call.op = "update_parameters" => call.ret \in {"True", "False"}

\* update_parameters has polled the whole DIAGNOSTIC profile, the catalyst
\* temperature included
C22_Witness ==
    /\ monitoring_active
    /\ active_profile = "DIAGNOSTIC"
    /\ call = Call("update_parameters", "True")
    /\ Range(reads) = Range(MONITORING_PROFILES["DIAGNOSTIC"].parameters)
    /\ <<"EMISSIONS_PARAMETERS", "CATALYST_TEMP">> \in Range(reads)

----------------------------------------------------------------------------
(* C23 *)

\* C23: the last poll time of a parameter is set as the last step of its poll:
\* whenever it is advanced, the value has been requested and has come back,
\* the current value carries it with the time of this poll and the sample of
\* this poll is the last of the history
C23_LastPolledSetLast ==
    [][\A k \in DOMAIN last_poll_time' :
            (last_poll_time'[k] > 0 /\ last_poll_time'[k] # DictGet(last_poll_time, k, 0))
                => /\ \A n \in DOMAIN inflight' :
                        ~(inflight'[n].waiting /\ inflight'[n].params[inflight'[n].i] = k)
                   /\ current_values'[k].timestamp = isoformat(last_poll_time'[k])
                   /\ historical_data'[k] # <<>>
                   /\ Last(historical_data'[k]).timestamp = isoformat(last_poll_time'[k])]_vars

----------------------------------------------------------------------------
(* C24 *)

FuelLevel == <<"FUEL_PARAMETERS", "FUEL_LEVEL">>

\* C24: a successful start_monitoring(p) leaves a last poll time of 0 for each
\* parameter of p and for no other key, with no value or sample of an earlier
\* session, and the update_parameters that follows it reads every parameter of
\* p once, in the order of the profile, however recently an earlier session
\* read it
C24_StartResetsScheduler ==
    [][/\ (call'.op = "start_monitoring" /\ call'.ret = "True")
            => /\ DOMAIN last_poll_time' = ProfileKeys'
               /\ \A k \in ProfileKeys' :
                    /\ last_poll_time'[k] = 0
                    /\ current_values'[k].value = None
                    /\ historical_data'[k] = <<>>
       /\ (call = Call("start_monitoring", "True") /\ call'.op = "update_parameters")
            => reads' = MONITORING_PROFILES[active_profile].parameters]_vars

\* the first update_parameters of a second session has read the fuel level,
\* polled every 30 time units, which the first session had read at most
\* SessionTime earlier
C24_Witness ==
    /\ monitoring_active
    /\ active_profile = "STANDARD"
    /\ Len(historical_sessions) >= 1
    /\ FuelLevel \in DOMAIN historical_sessions[1].parameters
    /\ historical_sessions[1].parameters[FuelLevel].values # <<>>
    /\ call = Call("update_parameters", "True")
    /\ reads = MONITORING_PROFILES[active_profile].parameters
    /\ Len(current_session.parameters[FuelLevel].values) = 1

----------------------------------------------------------------------------
(* C25 *)

\* C25: while the engine monitors a profile of the catalog, after the start and
\* after any number of update_parameters, the keys of current_values, of
\* historical_data, of last_poll_time and of the parameter map of the active
\* session are the parameters of the profile; right after the start every
\* current value is absent with status unknown and the session has no sample
\* and no alert
C25_KeySetsEqualProfile ==
    /\ (monitoring_active /\ active_profile \in DOMAIN MONITORING_PROFILES)
            => /\ DOMAIN current_values = ProfileKeys
               /\ DOMAIN historical_data = ProfileKeys
               /\ DOMAIN last_poll_time = ProfileKeys
               /\ DOMAIN current_session.parameters = ProfileKeys
    /\ call = Call("start_monitoring", "True")
            => /\ \A k \in ProfileKeys :
                    /\ current_values[k].value = None
                    /\ current_values[k].status = "unknown"
                    /\ historical_data[k] = <<>>
                    /\ current_session.parameters[k].values = <<>>
               /\ current_session.alerts = <<>>
               /\ alerts = <<>>

\* an update_parameters of the ECONOMY profile in which a read failed: the
\* parameter keeps its entries, with an absent value
C25_Witness ==
    /\ monitoring_active
    /\ active_profile = "ECONOMY"
    /\ call = Call("update_parameters", "True")
    /\ \E k \in DOMAIN current_values :
            /\ current_values[k].value = None
            /\ last_poll_time[k] > 0
            /\ current_session.parameters[k].values = <<>>

----------------------------------------------------------------------------
(* C26 *)

\* C26: set_vehicle_info is carried out on an idle engine as on a monitoring
\* one and changes nothing but the vehicle description of the document: the
\* engine state, the active profile, the active session, the historical
\* sessions, the counters and the last poll times stay as they are
C26_SetVehicleInfoFrame ==
    [][call'.op = "set_vehicle_info"
        => /\ call'.ret = "None"
           /\ monitoring_data'.metadata.vehicle_info \in VehicleInfoArgs
           /\ monitoring_data' = [monitoring_data EXCEPT
                    !.metadata.vehicle_info = monitoring_data'.metadata.vehicle_info]
           /\ UNCHANGED <<monitoring_active, active_profile, last_poll_time, current_values,
                          historical_data, alerts>>]_vars

\* the vehicle was described during a session that holds samples and alerts
C26_Witness ==
    /\ monitoring_active
    /\ call = Call("set_vehicle_info", "None")
    /\ monitoring_data.metadata.vehicle_info.make = "Honda"
    /\ current_session.alerts # <<>>
    /\ total_alerts >= 1
    /\ \E k \in DOMAIN last_poll_time : last_poll_time[k] > 0

----------------------------------------------------------------------------
(* C27 *)

\* C27: update_parameters on an idle engine returns False, requests nothing
\* from the Value Source and changes neither the current values, the history,
\* the alerts, the last poll times, the document nor the persisted document
C27_TickWhileIdleRefused ==
    [][(~monitoring_active /\ call'.op = "update_parameters")
        => /\ call'.ret = "False"
           /\ reads' = <<>>
           /\ ~monitoring_active'
           /\ UNCHANGED <<active_profile, current_values, historical_data, alerts,
                          last_poll_time, monitoring_data, persisted, tickLog, readLog>>]_vars

\* update_parameters was refused on an engine that is idle after a session
\* whose values it still holds
C27_Witness ==
    /\ ~monitoring_active
    /\ call = Call("update_parameters", "False")
    /\ Len(historical_sessions) >= 1
    /\ \E k \in DOMAIN current_values : current_values[k].value # None

----------------------------------------------------------------------------
(* C28 *)

\* C28: the historical sessions are append-only and frozen: a successful
\* stop_monitoring appends exactly the session it closes, at the end, and no
\* other call to the engine (a start, the update_parameters of a later
\* session, set_vehicle_info, a refused stop) changes the sequence, so that its
\* length is the number of successful stops and its order the order of closing
C28_HistoryAppendOnly ==
    [][call'.op # "__init__"
        => /\ IsPrefix(historical_sessions, historical_sessions')
           /\ IF call'.op = "stop_monitoring" /\ call'.ret = "True"
              THEN /\ Len(historical_sessions') = Len(historical_sessions) + 1
                   /\ Last(historical_sessions') =
                        [current_session EXCEPT
                            !.duration = now - fromisoformat(current_session.start_time)]
              ELSE historical_sessions' = historical_sessions]_vars

\* two sessions were closed, the first with alerts and the second, started
\* later, without any
C28_Witness ==
    /\ Len(historical_sessions) >= 2
    /\ historical_sessions[1].alerts # <<>>
    /\ historical_sessions[2].alerts = <<>>
    /\ historical_sessions[1].start_time # historical_sessions[2].start_time
    /\ call = Call("stop_monitoring", "True")

----------------------------------------------------------------------------
(* C29 *)

\* the ticks of the running session at or after time t
TicksFrom(t) == {T \in tickLog : T >= t}

\* C29: in a session whose ticks come at any distances, every parameter of the
\* profile is read at the first tick, and a parameter read at time t is read
\* again at the first tick at or after t + its polling rate, whichever
\* parameters stand before it in the profile and whatever their polling rates;
\* its last poll time is the time of its latest read
C29_NoStarvation ==
    (Polling /\ tickLog # {})
        => \A k \in ActiveParams :
            /\ Min(tickLog) \in ReadTimes(k)
            /\ \A t \in ReadTimes(k) :
                    TicksFrom(t + polling_rate(k)) # {}
                        => Min(TicksFrom(t + polling_rate(k))) \in ReadTimes(k)
            /\ last_poll_time[k] = Max(ReadTimes(k))

\* after ticks at irregular times a parameter polled every 5 time units, read
\* at the start, was read again at the first tick past its rate, which came 6
\* units after the start, no tick having run at 5; a parameter polled every
\* time unit stands before it in the profile
C29_Witness ==
    /\ Polling
    /\ Epoch + 5 \notin tickLog
    /\ \E k \in ActiveParams :
            /\ polling_rate(k) = 5
            /\ {Epoch, Epoch + 6} \subseteq ReadTimes(k)
            /\ ReadTimes(k) \cap ((Epoch + 1) .. (Epoch + 5)) = {}
    /\ polling_rate(MONITORING_PROFILES[active_profile].parameters[1]) = 1

----------------------------------------------------------------------------
(* C30 *)

\* the databases as they were passed to the merge, in the order of their precedence
MergeSources ==
    <<[name |-> "primary", db |-> merging.given.primary_dtcs],
      [name |-> "new_2007", db |-> merging.given.new_2007_dtcs],
      [name |-> "rac", db |-> merging.given.rac_dtcs]>>

\* the positions of the sources that contain the code
Containing(code) == {i \in DOMAIN MergeSources : code \in DOMAIN MergeSources[i].db}

\* the database with the entries of other codes taken out
Only(db, code) == [c \in (DOMAIN db) \cap {code} |-> db[c]]

\* C30: the codes of the merged database are those of the three sources
\* together; the entry of a code is that of the first source that has it, but
\* for a description that was empty there and was taken from a later source
\* that has the code; it depends on the entries of that code alone; and its
\* source lists, once each, exactly the sources that have the code
C30_MergeBySourcePrecedence ==
    merging.status = "done"
        => LET merged == merging.merged_dtcs
           IN  /\ DOMAIN merged = UNION {DOMAIN MergeSources[i].db : i \in DOMAIN MergeSources}
               /\ \A code \in DOMAIN merged :
                    LET first == Min(Containing(code))
                        earliest == MergeSources[first].db[code]
                    IN  /\ merged[code].code = code
                        /\ merged[code].title = earliest.title
                        /\ earliest.description # ""
                                => merged[code].description = earliest.description
                        /\ merged[code].description # earliest.description
                                => \E i \in Containing(code) :
                                        /\ i > first
                                        /\ merged[code].description =
                                                MergeSources[i].db[code].description
                        /\ Range(merged[code].source) =
                                {MergeSources[i].name : i \in Containing(code)}
                        /\ Len(merged[code].source) = Cardinality(Containing(code))
                        /\ merged[code] =
                                merge_dtc_databases(Only(merging.given.primary_dtcs, code),
                                                    Only(merging.given.new_2007_dtcs, code),
                                                    Only(merging.given.rac_dtcs, code))[code]

\* code 1, in all three sources, has taken the 2007 description its primary
\* entry lacked; code 2 has kept its primary description against the 2007 one
C30_Witness ==
    /\ merging.status = "done"
    /\ Codes \subseteq DOMAIN merging.given.primary_dtcs
    /\ Codes \subseteq DOMAIN merging.given.new_2007_dtcs
    /\ merging.given.primary_dtcs[1].description = ""
    /\ merging.merged_dtcs[1].description = "2007 description"
    /\ 1 \in DOMAIN merging.given.rac_dtcs
    /\ merging.merged_dtcs[1].source = <<"primary", "new_2007", "rac">>
    /\ merging.given.new_2007_dtcs[2].description = "2007 description"
    /\ merging.merged_dtcs[2].description = "primary description"

====
